---- MODULE Spec2Model ----
(***************************************************************************)
(* Model of stock_screener.py: one Streamlit script that parses a ticker   *)
(* text, fetches one frame of daily bars per ticker from the data          *)
(* provider, computes indicators, filters, sorts and charts.               *)
(*                                                                         *)
(* Numbers: pandas/numpy floats are modelled as exact rationals <<n, d>>   *)
(* with d > 0, and NaN as <<0, 0>> (every comparison with NaN is false).   *)
(* Text is a sequence of one-character strings.                            *)
(***************************************************************************)
EXTENDS Integers, Sequences, FiniteSets, TLC

(***************************************************************************)
(* Rational arithmetic (float64 without rounding error).                   *)
(***************************************************************************)
Abs(x) == IF x < 0 THEN -x ELSE x

RECURSIVE GCD(_, _)
GCD(a, b) == IF b = 0 THEN a ELSE GCD(b, a % b)

NaN == <<0, 0>>

IsNaN(q) == q[2] = 0

\* n / d in lowest terms with a positive denominator; x / 0 is NaN
Rat(n, d) ==
    IF d = 0 THEN NaN
    ELSE LET g == GCD(Abs(n), Abs(d))
             s == IF d < 0 THEN -1 ELSE 1
         IN  <<s * (n \div g), s * (d \div g)>>

RInt(n) == <<n, 1>>

RAdd(a, b) == IF IsNaN(a) \/ IsNaN(b) THEN NaN
              ELSE Rat(a[1] * b[2] + b[1] * a[2], a[2] * b[2])

RSub(a, b) == IF IsNaN(a) \/ IsNaN(b) THEN NaN
              ELSE Rat(a[1] * b[2] - b[1] * a[2], a[2] * b[2])

RMul(a, b) == IF IsNaN(a) \/ IsNaN(b) THEN NaN
              ELSE Rat(a[1] * b[1], a[2] * b[2])

RDiv(a, b) == IF IsNaN(a) \/ IsNaN(b) THEN NaN
              ELSE Rat(a[1] * b[2], a[2] * b[1])

RGt(a, b) == ~IsNaN(a) /\ ~IsNaN(b) /\ a[1] * b[2] > b[1] * a[2]
RGe(a, b) == ~IsNaN(a) /\ ~IsNaN(b) /\ a[1] * b[2] >= b[1] * a[2]
RLt(a, b) == RGt(b, a)

\* round(x, digits) of a float64: numpy rounds x * 10^digits to the nearest
\* integer, halves to the even one; the result is kept in units of 10^-digits
Pow10(k) == IF k = 0 THEN 1 ELSE IF k = 1 THEN 10 ELSE IF k = 2 THEN 100 ELSE 1000

Round(q, digits) ==
    LET N == q[1] * Pow10(digits)
        f == N \div q[2]
        r == N % q[2]
    IN  IF 2 * r > q[2] THEN f + 1
        ELSE IF 2 * r < q[2] THEN f
        ELSE IF f % 2 = 0 THEN f ELSE f + 1

\* int(x) of a float: truncation toward zero
Trunc(q) == IF q[1] >= 0 THEN q[1] \div q[2] ELSE -((-q[1]) \div q[2])

(***************************************************************************)
(* Text: str.split(","), str.strip(), str.upper() on character sequences.  *)
(***************************************************************************)
Whitespace == {" ", "\t", "\n"}

LowerCase == <<"a","b","c","d","e","f","g","h","i","j","k","l","m",
               "n","o","p","q","r","s","t","u","v","w","x","y","z">>
UpperCase == <<"A","B","C","D","E","F","G","H","I","J","K","L","M",
               "N","O","P","Q","R","S","T","U","V","W","X","Y","Z">>

UpperChar(c) ==
    IF \E i \in 1..Len(LowerCase) : LowerCase[i] = c
    THEN UpperCase[CHOOSE i \in 1..Len(LowerCase) : LowerCase[i] = c]
    ELSE c

Upper(s) == [i \in 1..Len(s) |-> UpperChar(s[i])]

Strip(s) ==
    LET keep == {i \in 1..Len(s) : s[i] \notin Whitespace}
    IN  IF keep = {} THEN <<>>
        ELSE LET lo == CHOOSE i \in keep : \A j \in keep : i <= j
                 hi == CHOOSE i \in keep : \A j \in keep : i >= j
             IN  SubSeq(s, lo, hi)

RECURSIVE Split(_, _)
Split(s, sep) ==
    LET at == {i \in 1..Len(s) : s[i] = sep}
    IN  IF at = {} THEN <<s>>
        ELSE LET i == CHOOSE k \in at : \A j \in at : k <= j
             IN  <<SubSeq(s, 1, i - 1)>> \o Split(SubSeq(s, i + 1, Len(s)), sep)

NonBlank(t) == Strip(t) # <<>>

\* [t.strip().upper() for t in tickers_input.split(",") if t.strip()]
ParseTickers(text) ==
    LET parts == SelectSeq(Split(text, ","), NonBlank)
    IN  [i \in 1..Len(parts) |-> Upper(Strip(parts[i]))]

\* the text area's initial value
DefaultText ==
    <<"A","A","P","L",",","T","S","L","A",",","N","V","D","A",",",
      "A","M","Z","N",",","M","S","F","T",",","M","E","T","A",",",
      "A","M","D",",","N","F","L","X",",","G","O","O","G">>

(***************************************************************************)
(* Frames.  A DataFrame is [cols |-> set of column names, rows |-> the     *)
(* sequence of its rows]; a row is a record of rationals.                  *)
(***************************************************************************)
SMA10Window == 10
SMA20Window == 20
Lookback == 10
Days1M == 21
Days3M == 63
Days6M == 126

\* pd.DataFrame(): no columns, no rows
EmptyFrame == [cols |-> {}, rows |-> <<>>]

\* df.empty: either axis has length 0
IsEmpty(frame) == frame.cols = {} \/ frame.rows = <<>>

\* a sequence given by a rule, written out element by element
List(s) == SubSeq(s, 1, Len(s))

Column(frame, name) == List([i \in 1..Len(frame.rows) |-> frame.rows[i][name]])

\* col[lo] + ... + col[hi], summed pairwise
RECURSIVE SumRange(_, _, _)
SumRange(col, lo, hi) ==
    IF lo > hi THEN RInt(0)
    ELSE IF lo = hi THEN col[lo]
    ELSE LET mid == (lo + hi) \div 2
         IN  RAdd(SumRange(col, lo, mid), SumRange(col, mid + 1, hi))

Sum(col) == SumRange(col, 1, Len(col))

\* Series.mean()
Mean(col) == IF col = <<>> THEN NaN ELSE RDiv(Sum(col), RInt(Len(col)))

RECURSIVE MaxOf(_)
MaxOf(col) ==
    IF Len(col) = 1 THEN col[1]
    ELSE LET m == MaxOf(Tail(col)) IN IF RGt(col[1], m) THEN col[1] ELSE m

RECURSIVE MinOf(_)
MinOf(col) ==
    IF Len(col) = 1 THEN col[1]
    ELSE LET m == MinOf(Tail(col)) IN IF RLt(col[1], m) THEN col[1] ELSE m

\* df.tail(k): the last k rows, all of them when there are fewer
TailRows(frame, k) ==
    [cols |-> frame.cols,
     rows |-> SubSeq(frame.rows, IF Len(frame.rows) > k THEN Len(frame.rows) - k + 1 ELSE 1,
                     Len(frame.rows))]

\* rolling(w, min_periods=1): the mean of however many values there are
RollingPartial(col, w) ==
    List([i \in 1..Len(col) |->
            IF i < w THEN RDiv(SumRange(col, 1, i), RInt(i))
            ELSE RDiv(SumRange(col, i - w + 1, i), RInt(w))])

\* Series.rolling(w).mean(): NaN until w values are in the window
Rolling(col, w) ==
    List([i \in 1..Len(col) |->
            IF i < w THEN NaN ELSE RDiv(SumRange(col, i - w + 1, i), RInt(w))])

\* df.dropna(): rows with any missing field go
NoMissing(row) == \A f \in DOMAIN row : ~IsNaN(row[f])
dropna(rows) == SelectSeq(rows, NoMissing)

\* ((df["High"] - df["Low"]) / df["Close"]) * 100, per row
adr_percent(frame) ==
    List([i \in 1..Len(frame.rows) |->
            RMul(RDiv(RSub(frame.rows[i].High, frame.rows[i].Low), frame.rows[i].Close),
                 RInt(100))])

consolidation_score(frame, lookback) ==
    LET recent == TailRows(frame, lookback)
    IN  RDiv(RSub(MaxOf(Column(recent, "High")), MinOf(Column(recent, "Low"))),
             Mean(Column(recent, "Close")))

\* A provider response is [kind |-> "raise"] (yf.download raises) or
\* [kind |-> "frame", cols, rows] (the frame it returns).
\* Any exception inside the try block yields pd.DataFrame().
fetch_data(resp) ==
    IF resp.kind = "raise" THEN EmptyFrame
    ELSE IF ~({"Close", "High", "Low"} \subseteq resp.cols) THEN EmptyFrame
    ELSE LET rows == dropna(resp.rows)
             d0 == [cols |-> resp.cols, rows |-> rows]
             sma10 == Rolling(Column(d0, "Close"), SMA10Window)
             sma20 == Rolling(Column(d0, "Close"), SMA20Window)
             adr == adr_percent(d0)
         IN  [cols |-> resp.cols \cup {"10SMA", "20SMA", "ADR%"},
              rows |-> List([i \in 1..Len(rows) |->
                               rows[i] @@ [SMA10 |-> sma10[i], SMA20 |-> sma20[i],
                                           ADR |-> adr[i]]])]

percent_change(frame, days) ==
    IF Len(frame.rows) < days THEN RInt(0)
    ELSE LET start == frame.rows[Len(frame.rows) - days + 1].Close
             end == frame.rows[Len(frame.rows)].Close
         IN  RMul(RDiv(RSub(end, start), start), RInt(100))

(***************************************************************************)
(* The data provider (yf.download) is external: its answers are drawn from *)
(* a catalogue of frames built to reach each threshold and each history    *)
(* length the script distinguishes.                                        *)
(***************************************************************************)
OHLCV == {"Open", "High", "Low", "Close", "Volume"}

\* len daily bars: Close is c0, then c1 on the last j bars, then c2 on the last
\* bar; High/Low are Close +/- pct/2 percent of Close; Volume is constant
MkBars(len, c0, c1, c2, j, pct, vol) ==
    List([i \in 1..len |->
            LET c == IF i = len THEN c2 ELSE IF i > len - j THEN c1 ELSE c0
                half == Rat(c * pct, 200)
            IN  [Open |-> RInt(c), High |-> RAdd(RInt(c), half),
                 Low |-> RSub(RInt(c), half), Close |-> RInt(c),
                 Volume |-> RInt(vol)]])

Frame(rows) == [kind |-> "frame", cols |-> OHLCV, rows |-> rows]

\* the same bars with the Close of bar k missing
WithGap(rows, k) == [rows EXCEPT ![k].Close = NaN]

\* the same bars without the Volume column
DropVolume(rows) ==
    List([i \in 1..Len(rows) |->
            [Open |-> rows[i].Open, High |-> rows[i].High,
             Low |-> rows[i].Low, Close |-> rows[i].Close]])

Raises == [kind |-> "raise", cols |-> {}, rows |-> <<>>]
NoRows == Frame(<<>>)
NoVolumeColumn ==
    [kind |-> "frame", cols |-> OHLCV \ {"Volume"},
     rows |-> DropVolume(MkBars(127, 1000, 2000, 2100, 15, 4, 80000))]

Catalogue ==
    << Raises,
       NoRows,
       NoVolumeColumn,
       Frame(MkBars(127, 1000, 2000, 2100, 15, 4, 50000)),  \* volume and ADR on the threshold
       Frame(MkBars(127,  800, 2000, 2050, 15, 5, 80000)),  \* 3-month gain 156.25
       Frame(MkBars(127, 1000, 2000, 2100, 15, 4, 90000)),  \* same gains as the first
       Frame(MkBars(127, 1000, 2000, 2100, 15, 4, 40000)),  \* volume too low
       Frame(MkBars(127, 1000, 2000, 2100, 15, 3, 80000)),  \* ADR too low
       Frame(MkBars(127, 1050, 2000, 2100, 15, 4, 80000)),  \* 3-month gain exactly 100
       Frame(MkBars(127, 1060, 2000, 2100, 15, 4, 80000)),  \* 3-month gain just below 100
       Frame(MkBars(127, 1000, 1000, 1000,  0, 4, 80000)),  \* flat: Close equals both SMAs
       Frame(MkBars(127, 1010, 1010, 1070,  0, 4, 80000)),  \* consolidation exactly 0.1
       Frame(MkBars(127, 1010, 1010, 1060,  0, 4, 80000)),  \* consolidation below 0.1
       Frame(MkBars(  9, 1000, 1000, 1050,   0, 4, 80000)),
       Frame(MkBars( 19, 1000, 1000, 1050,   0, 4, 80000)),
       Frame(WithGap(MkBars(20, 1000, 1000, 1050, 0, 4, 80000), 5)),
       Frame(MkBars( 20, 1000, 1000, 1050,   0, 4, 80000)),
       Frame(MkBars( 21,  900, 1000, 1050,  20, 4, 80000)),
       Frame(MkBars( 22,  900, 1000, 1050,  21, 4, 80000)),
       Frame(MkBars( 63,  900, 1000, 1050,  62, 4, 80000)),
       Frame(MkBars( 64,  900, 1000, 1050,  63, 4, 80000)),
       Frame(MkBars(126,  900, 1000, 1050, 125, 4, 80000)) >>

Listed == { <<"A">>, <<"B">> }

\* which answers of the catalogue yf.download may give for a ticker: symbols
\* outside Listed have no data (it raises, or returns no rows)
Provider(ticker) ==
    IF ticker \in Listed THEN 1..Len(Catalogue) ELSE {1, 2}

\* fetch_data on each answer of the catalogue
Fetched == List([k \in 1..Len(Catalogue) |-> fetch_data(Catalogue[k])])

(***************************************************************************)
(* Inputs of the renderer: filter thresholds and ticker text.              *)
(***************************************************************************)
DefaultMinVolume == 50000
DefaultMinAdr == 4
DefaultMinGain1M == 50
DefaultMinGain3M == 100

DefaultFilters ==
    [min_volume |-> RInt(DefaultMinVolume), min_adr |-> RInt(DefaultMinAdr),
     min_gain_1m |-> RInt(DefaultMinGain1M), min_gain_3m |-> RInt(DefaultMinGain3M)]

FilterChoices ==
    { DefaultFilters,
      [min_volume |-> RInt(0), min_adr |-> RInt(0),
       min_gain_1m |-> RInt(0), min_gain_3m |-> RInt(0)],
      [min_volume |-> RInt(0 - 1), min_adr |-> RInt(0 - 1),
       min_gain_1m |-> RInt(0 - 50), min_gain_3m |-> RInt(0 - 50)] }

\* longest ticker list the user types (the default text is longer)
MaxTickers == 2

TypedTexts ==
    { <<>>,
      <<" ", ",", " ", ",">>,
      <<"a">>,
      <<"A", ",", "B">>,
      <<" ", "b", " ", ",", ",", "a", ",">>,
      <<"B", ",", "A", ",", "B">>,
      <<"a", ",", "b", ",", "a", ",", "B">> }

TextChoices ==
    {t \in TypedTexts : Len(ParseTickers(t)) <= MaxTickers} \cup {DefaultText}

(***************************************************************************)
(* The script.                                                             *)
(***************************************************************************)
VARIABLES
    tickers_input,  \* the text area
    filters,        \* the four number inputs
    pc,             \* where the script run is
    ui,             \* the elements the run has rendered, in order
    calls,          \* the provider calls of the run, in order
    tickers,        \* the parsed ticker list
    pos,              \* how many tickers the for loop has taken
    results,        \* the rows appended so far
    df,             \* the frame of the ticker in hand
    ind,            \* avg_vol, avg_adr, gain_1m, gain_3m, gain_6m, cons, above_sma
    df_res,         \* the sorted result table
    sel,            \* the select box's ticker
    fig             \* the chart

vars == <<tickers_input, filters, pc, ui, calls, tickers, pos, results, df, ind,
          df_res, sel, fig>>

\* a name the run has not bound yet
Unbound == [avg_vol |-> NaN, avg_adr |-> NaN, gain_1m |-> NaN, gain_3m |-> NaN,
            gain_6m |-> NaN, cons |-> NaN, above_sma |-> FALSE]
NoFigure == [title |-> <<>>, bars |-> 0]

\* lines 72-82: the indicators of a non-empty frame
Indicators(d) ==
    LET last == d.rows[Len(d.rows)]
    IN  [avg_vol |-> Mean(Column(d, "Volume")),
         avg_adr |-> Mean(Column(d, "ADR")),
         gain_1m |-> percent_change(d, Days1M),
         gain_3m |-> percent_change(d, Days3M),
         gain_6m |-> percent_change(d, Days6M),
         cons |-> consolidation_score(d, Lookback),
         above_sma |-> RGt(last.Close, last.SMA10) /\ RGt(last.Close, last.SMA20)]

ConsolidationCutoff == Rat(1, 10)

\* the filter with the consolidation cutoff included (<= instead of <)
PassesFiltersInclusive(x, f) ==
    /\ RGe(x.avg_vol, f.min_volume)
    /\ RGe(x.avg_adr, f.min_adr)
    /\ RGe(x.gain_1m, f.min_gain_1m)
    /\ RGe(x.gain_3m, f.min_gain_3m)
    /\ x.above_sma
    /\ RGe(ConsolidationCutoff, x.cons)

\* lines 84-91
PassesFilters(x, f) ==
    /\ RGe(x.avg_vol, f.min_volume)
    /\ RGe(x.avg_adr, f.min_adr)
    /\ RGe(x.gain_1m, f.min_gain_1m)
    /\ RGe(x.gain_3m, f.min_gain_3m)
    /\ x.above_sma
    /\ RLt(x.cons, ConsolidationCutoff)

\* lines 93-101; rounded values are kept in units of the last digit
ResultRow(tkr, x) ==
    [Ticker |-> tkr,
     Gain1M |-> Round(x.gain_1m, 1),
     Gain3M |-> Round(x.gain_3m, 1),
     Gain6M |-> Round(x.gain_6m, 1),
     AvgVolume |-> Trunc(x.avg_vol),
     ADR |-> Round(x.avg_adr, 2),
     Consolidation |-> Round(x.cons, 3)]

\* lines 68-82 on each answer of the catalogue: the frame, and what the loop
\* body makes of it
LoopBody ==
    List([k \in 1..Len(Catalogue) |->
            LET d == Fetched[k]
            IN  IF IsEmpty(d) THEN [df |-> d, outcome |-> "continue", ind |-> Unbound]
                ELSE IF "Volume" \notin d.cols
                     THEN [df |-> d, outcome |-> "KeyError", ind |-> Unbound]
                ELSE [df |-> d, outcome |-> "evaluated", ind |-> Indicators(d)]])

\* a loop that fetches each ticker twice
IterationCallsTwice(tkr) ==
    <<[stage |-> "scan", ticker |-> tkr], [stage |-> "scan", ticker |-> tkr]>>

\* line 68: the provider calls one pass of the loop makes
IterationCalls(tkr) == <<[stage |-> "scan", ticker |-> tkr]>>

\* a loop that renders a progress notice for every ticker
IterationOutputProgress(outcome) ==
    IF outcome = "KeyError" THEN <<"exception">> ELSE <<"info">>

\* lines 67-102: what one pass of the loop renders; an exception that leaves
\* the script is rendered by Streamlit
IterationOutput(outcome) == IF outcome = "KeyError" THEN <<"exception">> ELSE <<>>

\* pd.DataFrame(results): the rows with their index labels 0, 1, ...
DataFrame(rows) ==
    [i \in 1..Len(rows) |-> rows[i] @@ [index |-> i - 1]]

\* sort_values("3M Gain %", ascending=False): kind defaults to quicksort,
\* which orders the keys and promises nothing about equal keys
Orderings(k) == {p \in [1..k -> 1..k] : \A i, j \in 1..k : i # j => p[i] # p[j]}

Descending(t) == \A i \in 1..(Len(t) - 1) : t[i].Gain3M >= t[i + 1].Gain3M

\* sort_values("3M Gain %") with ascending left at its default
sort_values_ascending(t) ==
    {s \in {[i \in 1..Len(t) |-> t[p[i]]] : p \in Orderings(Len(t))} :
        \A i \in 1..(Len(s) - 1) : s[i].Gain3M <= s[i + 1].Gain3M}

sort_values(t) ==
    {s \in {[i \in 1..Len(t) |-> t[p[i]]] : p \in Orderings(Len(t))} : Descending(s)}

ChartColumns == {"Open", "High", "Low", "Close", "10SMA", "20SMA"}

Init ==
    /\ tickers_input = DefaultText
    /\ filters = DefaultFilters
    /\ pc = "idle"
    /\ ui = <<>>
    /\ calls = <<>>
    /\ tickers = <<>>
    /\ pos = 0
    /\ results = <<>>
    /\ df = EmptyFrame
    /\ ind = Unbound
    /\ df_res = <<>>
    /\ sel = <<>>
    /\ fig = NoFigure

Idle == pc \in {"idle", "done", "crashed"}

\* a rerun of the script starts from nothing but the widgets' values
Fresh ==
    /\ ui' = <<>>
    /\ calls' = <<>>
    /\ tickers' = <<>>
    /\ pos' = 0
    /\ results' = <<>>
    /\ df' = EmptyFrame
    /\ ind' = Unbound
    /\ df_res' = <<>>
    /\ sel' = <<>>
    /\ fig' = NoFigure

\* the user edits the text area: the script reruns with the button not pressed
EditTickers ==
    /\ Idle
    /\ \E t \in TextChoices : t # tickers_input /\ tickers_input' = t
    /\ pc' = "idle"
    /\ Fresh
    /\ UNCHANGED filters

\* the user edits the number inputs
EditFilters ==
    /\ Idle
    /\ \E f \in FilterChoices : f # filters /\ filters' = f
    /\ pc' = "idle"
    /\ Fresh
    /\ UNCHANGED tickers_input

\* lines 62-65: the button, st.info, results = [], the ticker list
ClickScan ==
    /\ Idle
    /\ pc' = "loop"
    /\ ui' = <<"info">>
    /\ calls' = <<>>
    /\ tickers' = ParseTickers(tickers_input)
    /\ pos' = 0
    /\ results' = <<>>
    /\ df' = EmptyFrame
    /\ ind' = Unbound
    /\ df_res' = <<>>
    /\ sel' = <<>>
    /\ fig' = NoFigure
    /\ UNCHANGED <<tickers_input, filters>>

\* lines 67-102: one pass of the for loop
ScanTicker ==
    /\ pc = "loop"
    /\ pos < Len(tickers)
    /\ LET tkr == tickers[pos + 1]
       IN  \E r \in Provider(tkr) :
             LET b == LoopBody[r]
             IN  /\ calls' = calls \o IterationCalls(tkr)
                 /\ pos' = pos + 1
                 /\ df' = b.df
                 /\ ind' = IF b.outcome = "evaluated" THEN b.ind ELSE ind
                 /\ pc' = IF b.outcome = "KeyError" THEN "crashed" ELSE "loop"
                 /\ ui' = ui \o IterationOutput(b.outcome)
                 /\ results' = IF b.outcome = "evaluated" /\ PassesFilters(b.ind, filters)
                               THEN Append(results, ResultRow(tkr, b.ind))
                               ELSE results
    /\ UNCHANGED <<tickers_input, filters, tickers, df_res, sel, fig>>

\* lines 104-107 and 128-129: the table, or the warning
ShowResults ==
    /\ pc = "loop"
    /\ pos = Len(tickers)
    /\ IF results # <<>>
       THEN /\ df_res' \in sort_values(DataFrame(results))
            /\ ui' = ui \o <<"success", "dataframe">>
            /\ pc' = "chart"
       ELSE /\ df_res' = df_res
            /\ ui' = Append(ui, "warning")
            /\ pc' = "done"
    /\ UNCHANGED <<tickers_input, filters, calls, tickers, pos, results, df, ind, sel, fig>>

\* lines 109-127: the select box, the second fetch, the figure
ShowChart ==
    /\ pc = "chart"
    /\ \E k \in 1..Len(df_res) :
         LET s == df_res[k].Ticker
         IN  \E r \in Provider(s) :
               LET dfc == Fetched[r]
               IN  /\ sel' = s
                   /\ calls' = Append(calls, [stage |-> "chart", ticker |-> s])
                   /\ IF ChartColumns \subseteq dfc.cols
                      THEN /\ fig' = [title |-> s, bars |-> Len(dfc.rows)]
                           /\ ui' = Append(ui, "plotly_chart")
                           /\ pc' = "done"
                      ELSE /\ fig' = fig
                           /\ ui' = Append(ui, "exception")
                           /\ pc' = "crashed"
    /\ UNCHANGED <<tickers_input, filters, tickers, pos, results, df, ind, df_res>>

Next == EditTickers \/ EditFilters \/ ClickScan \/ ScanTicker \/ ShowResults \/ ShowChart

Spec == Init /\ [][Next]_vars

(***************************************************************************)
(* Properties.                                                             *)
(***************************************************************************)
Started == pc # "idle"
LoopOver == pc \in {"chart", "done"}
Last(q) == q[Len(q)]
IsScanCall(c) == c.stage = "scan"
ScanCalls == SelectSeq(calls, IsScanCall)
InfoCount == Cardinality({i \in 1..Len(ui) : ui[i] = "info"})

\* a pass of the loop that fetched a non-empty frame and computed its indicators
Evaluates ==
    /\ pc = "loop" /\ pc' = "loop" /\ pos' = pos + 1
    /\ ~IsEmpty(df')

\* the six conditions, on the indicators of the pass and the last bar of its frame
SixConditions ==
    /\ RGe(ind'.avg_vol, filters.min_volume)
    /\ RGe(ind'.avg_adr, filters.min_adr)
    /\ RGe(ind'.gain_1m, filters.min_gain_1m)
    /\ RGe(ind'.gain_3m, filters.min_gain_3m)
    /\ RGt(Last(df'.rows).Close, Last(df'.rows).SMA10)
    /\ RGt(Last(df'.rows).Close, Last(df'.rows).SMA20)
    /\ RLt(ind'.cons, Rat(1, 10))

EmitsRow ==
    /\ Len(results') = Len(results) + 1
    /\ SubSeq(results', 1, Len(results)) = results
    /\ Last(results').Ticker = tickers[pos + 1]

\* C1: for a ticker whose fetched series is non-empty, a result row is emitted
\* if and only if all six filter conditions hold on the indicators computed for
\* it: the >= thresholds inclusive, the SMA and consolidation comparisons strict.
C1_RowIffSixConditions ==
    [][Evaluates => IF SixConditions THEN EmitsRow ELSE results' = results]_vars

\* C1 witness: a row was emitted for a ticker whose mean volume and mean ADR%
\* sit exactly on their thresholds
C1_Witness ==
    /\ pc = "loop" /\ pos >= 1 /\ ~IsEmpty(df)
    /\ results # <<>> /\ Last(results).Ticker = tickers[pos]
    /\ ind.avg_vol = filters.min_volume
    /\ ind.avg_adr = filters.min_adr
    /\ Last(results).AvgVolume = DefaultMinVolume

\* C2: the result table is ordered by 3-month gain percent, descending: every
\* row's "3M Gain %" is at least that of the row after it.
C2_SortedDescending ==
    /\ \A i \in 1..(Len(df_res) - 1) : df_res[i].Gain3M >= df_res[i + 1].Gain3M
    /\ pc \in {"chart", "done"} /\ results # <<>> => Len(df_res) = Len(results)

\* C2 witness: a table of two rows that the sort had to swap
C2_Witness ==
    /\ pc = "chart" /\ Len(df_res) = 2
    /\ df_res[1].Gain3M > df_res[2].Gain3M
    /\ df_res[1].index > df_res[2].index

\* C3: rows with equal 3-month gain percent keep the relative order of their
\* tickers in the input list (the index labels are the order of emission).
C3_StableSort ==
    \A i, j \in 1..Len(df_res) :
        i < j /\ df_res[i].Gain3M = df_res[j].Gain3M
            => df_res[i].index < df_res[j].index

\* the trailing gain as the specification words it
ClaimedGain(frame, horizon) ==
    IF Len(frame.rows) < horizon + 1 THEN RInt(0)
    ELSE LET start == frame.rows[Len(frame.rows) - horizon].Close
             end == Last(frame.rows).Close
         IN  RMul(RDiv(RSub(end, start), start), RInt(100))

\* C4: for each horizon N of 21, 63, 126 the computed gain is
\* (Close[last] - Close[last - N]) / Close[last - N] * 100 with at least N + 1
\* bars and 0 with fewer (N bars included).
C4_GainOverNBars ==
    Started /\ pos >= 1 /\ ~IsEmpty(df) /\ "Volume" \in df.cols
        => /\ ind.gain_1m = ClaimedGain(df, 21)
           /\ ind.gain_3m = ClaimedGain(df, 63)
           /\ ind.gain_6m = ClaimedGain(df, 126)

\* C5: a ticker whose cleaned series has fewer than 20 bars is never emitted,
\* whatever the thresholds and whatever its volume, range and gains.
C5_ShortSeriesNeverEmitted ==
    [][pc = "loop" /\ pos' = pos + 1 /\ Len(df'.rows) < 20 => results' = results]_vars

\* C5 witness: 19 clean bars, the last Close above the 10-bar SMA, negative
\* thresholds, and no row
C5_Witness ==
    /\ pc = "loop" /\ pos >= 1 /\ Len(df.rows) = 19
    /\ RGt(Last(df.rows).Close, Last(df.rows).SMA10)
    /\ RLt(filters.min_gain_1m, RInt(0))
    /\ RGe(ind.avg_vol, filters.min_volume)
    /\ results = <<>>

\* C6: a fault while evaluating one ticker never aborts the scan: the loop goes
\* on to every later ticker.
C6_ScanNeverAborts ==
    pc = "crashed" => calls # <<>> /\ Last(calls).stage = "chart"

C8_BlankMeansDefault ==
    Started /\ ParseTickers(tickers_input) = <<>> => tickers = ParseTickers(DefaultText)

\* C9 as claimed: after a scan over the parsed tickers the number of progress
\* updates equals the number of tickers.
C9_UpdatePerTicker == LoopOver => InfoCount = Len(tickers)

\* C9 as amended: a scan renders exactly one progress notice, first of all and
\* before any provider call, whatever the number of tickers.
C9_OneUpdatePerScan ==
    /\ Started => InfoCount = 1 /\ ui[1] = "info"
    /\ pc = "loop" /\ pos = 0 => ui = <<"info">> /\ calls = <<>>

\* C9 witness: a finished scan of two tickers that rendered one notice
C9_Witness == pc = "done" /\ Len(tickers) = 2 /\ Len(ScanCalls) = 2 /\ InfoCount = 1

\* C10: the chart stage runs only after a non-empty result, makes one more
\* provider call for a ticker of the result set, and an empty or failed second
\* fetch raises nothing.
C10_ChartFetchNeverRaises ==
    /\ pc = "chart" => results # <<>>
    /\ calls # <<>> /\ Last(calls).stage = "chart"
         => /\ Len(calls) = Len(ScanCalls) + 1
            /\ \E i \in 1..Len(df_res) : df_res[i].Ticker = Last(calls).ticker
            /\ pc # "crashed"

====
